---------------------------- MODULE Spec2Model ----------------------------
(***************************************************************************)
(* The double-entry posting engine of the accounting application:          *)
(*   - POST /api/journal-entries and PUT /api/journal-entries/:id          *)
(*     (src/server/routes.ts), which validate a candidate entry, and       *)
(*   - DatabaseStorage.createJournalEntry / updateJournalEntry             *)
(*     (src/server/storage.ts), which post it inside one db.transaction.   *)
(*                                                                         *)
(* Money.  Request amounts are decimal strings.  The routes and the        *)
(* storage layer turn them into JavaScript numbers with parseFloat and     *)
(* back into strings with toFixed(2); the database columns are             *)
(* numeric(15,2).  A JavaScript number is written here in thousandths      *)
(* (mills) as the one-element tuple <<m>>, NaN as the empty tuple; a       *)
(* numeric(15,2) value is an integer number of cents.  Arithmetic on the   *)
(* small amounts of this model is exact except where an IEEE-754 double    *)
(* decides: a value exactly half-way between two cents (toFixed) and a     *)
(* difference of exactly 0.01 (the balance check).  Those outcomes are     *)
(* tabulated from the doubles themselves.                                  *)
(***************************************************************************)
EXTENDS Integers, Sequences, FiniteSets, TLC

\* ------------------------------------------------------------ bounds
\* journal entries that may exist
MaxEntries == 2
\* lines in one request
MaxLines == 2
\* HTTP requests served in one behaviour
MaxOps == 3

\* ------------------------------------------------------------ program constants
\* z.array(lineRequestSchema).min(2, ...)
MinLines == 2
\* Math.abs(totalDebits - totalCredits) > 0.01, in mills
EpsilonMills == 10

\* ------------------------------------------------------------ decimal strings
\* The amount strings a client sends.  DecimalText gives the reading of each:
\* whether it is a decimal literal at all, its sign, and its magnitude in mills.
AmountStrs == {"0", "0.01", "0.02", "0.015", "0.004", "-0.01", "abc"}

DecimalText(s) ==
  CASE s = "0"     -> [wellFormed |-> TRUE,  sign |-> 1,  mills |-> 0]
    [] s = "0.01"  -> [wellFormed |-> TRUE,  sign |-> 1,  mills |-> 10]
    [] s = "0.02"  -> [wellFormed |-> TRUE,  sign |-> 1,  mills |-> 20]
    [] s = "0.015" -> [wellFormed |-> TRUE,  sign |-> 1,  mills |-> 15]
    [] s = "0.004" -> [wellFormed |-> TRUE,  sign |-> 1,  mills |-> 4]
    [] s = "-0.01" -> [wellFormed |-> TRUE,  sign |-> -1, mills |-> 10]
    [] OTHER       -> [wellFormed |-> FALSE, sign |-> 1,  mills |-> 0]

\* ------------------------------------------------------------ JavaScript numbers
NaN == <<>>
Num(m) == <<m>>
IsNaN(x) == x = NaN
Val(x) == x[1]

\* parseFloat(s): the number a decimal literal denotes, NaN when the string
\* starts with no number.
parseFloat(s) ==
  LET t == DecimalText(s)
  IN  IF t.wellFormed THEN Num(t.sign * t.mills) ELSE NaN

\* x + y, x - y, Math.abs(x); NaN is absorbing.
Plus(x, y)  == IF IsNaN(x) \/ IsNaN(y) THEN NaN ELSE Num(Val(x) + Val(y))
Minus(x, y) == IF IsNaN(x) \/ IsNaN(y) THEN NaN ELSE Num(Val(x) - Val(y))
Abs(x) == IF IsNaN(x) THEN NaN ELSE IF Val(x) < 0 THEN Num(-Val(x)) ELSE x

\* x < y, x > y, x === y; every comparison with NaN is false.
Lt(x, y) == ~IsNaN(x) /\ ~IsNaN(y) /\ Val(x) < Val(y)
Gt(x, y) == ~IsNaN(x) /\ ~IsNaN(y) /\ Val(x) > Val(y)
StrictEq(x, y) == ~IsNaN(x) /\ ~IsNaN(y) /\ Val(x) = Val(y)

Zero == Num(0)

\* ------------------------------------------------------------ numeric(15,2)
\* The cast of a string to numeric(15,2): PostgreSQL rejects a string that is
\* no number (the statement fails) and rounds half away from zero to 2 places.
PgCastOk(s) == DecimalText(s).wellFormed
PgNumeric(s) ==
  LET t == DecimalText(s)
  IN  t.sign * ((t.mills + 5) \div 10)

\* parseFloat of a numeric(15,2) column value read back from the database
\* (the driver returns "d.dd").
parseStored(cents) == Num(cents * 10)


\* ------------------------------------------------------------ toFixed(2)
\* The balances (cents) b and signed changes (mills) m, with b + m exactly
\* half-way between two cents, for which the double b/100 + m/1000 lies below
\* the half-way point, so that toFixed(2) gives the lower cent.  Tabulated from
\* IEEE-754 doubles for -40 <= b <= 40 and m = 15, -15.
TieRange == -40 .. 40
DoubleBelowTie ==
  {<<b, 15>> : b \in {-40, -39, -34, -33, -28, -27, -23, -22, -21, -17, -16,
                      -15, -14, -13, -11, -10, -8, -7, -5, -4, -2, -1, 0, 3, 6,
                      9, 15, 16, 17, 21, 22, 23, 29, 35}}
  \cup
  {<<b, -15>> : b \in {-40, -39, -38, -37, -36, -34, -33, -32, -31, -30, -28,
                       -27, -26, -25, -24, -20, -19, -18, -14, -13, -12, -11,
                       -10, -8, -7, -5, -4, -2, -1, 3, 6, 9, 12, 18, 19, 20,
                       24, 25, 26, 29, 30, 31, 32, 35, 36, 37, 38}}

\* (parseFloat(balance) + change).toFixed(2) stored back into numeric(15,2):
\* the nearest cent of the double, which is the nearest cent of the exact sum
\* except at a tie.
toFixed2(cents, change) ==
  LET exact == cents * 10 + change
  IN  IF exact % 10 = 5
      THEN IF <<cents, change>> \in DoubleBelowTie
           THEN exact \div 10
           ELSE exact \div 10 + 1
      ELSE (exact + 5) \div 10

\* totalDebits.toFixed(2) for the float sum of a request's debit amounts.  The
\* sums of up to 3 of this model's amounts that land on a tie lie below it at
\* 0.015 and 0.045 and above it at 0.035 and 0.055.  "NaN" stays NaN.
TotalBelowTie == {15, 45}
totalToFixed2(total) ==
  IF IsNaN(total) THEN NaN
  ELSE LET exact == Val(total)
       IN  IF exact % 10 = 5
           THEN IF exact \in TotalBelowTie
                THEN Num(exact \div 10)
                ELSE Num(exact \div 10 + 1)
           ELSE Num((exact + 5) \div 10)

\* ------------------------------------------------------------ chart of accounts
CompanyIds == {"c1", "c2"}
AccountIds == {"cash", "sales", "rent", "xcash"}
\* an accountId a request may name that is in no company's chart
GhostId == "ghost"

InitAccounts ==
  [a \in AccountIds |->
     CASE a = "cash"  -> [companyId |-> "c1", type |-> "ASSET",   balance |-> 0]
       [] a = "sales" -> [companyId |-> "c1", type |-> "REVENUE", balance |-> 0]
       [] a = "rent"  -> [companyId |-> "c1", type |-> "EXPENSE", balance |-> 0]
       [] OTHER       -> [companyId |-> "c2", type |-> "ASSET",   balance |-> 0]]

\* ['ASSET', 'EXPENSE'].includes(account.type)
DebitNormal(type) == type \in {"ASSET", "EXPENSE"}

\* ------------------------------------------------------------ requests
Line(a, d, c) == [accountId |-> a, debitAmount |-> d, creditAmount |-> c]

\* The lines a request is built from: the postings of a small ledger, one line
\* for each way a line can be wrong, and one whose amount has three decimals.
LineChoices ==
  { Line("cash",  "0.02",  "0"),
    Line("sales", "0",     "0.02"),
    Line("sales", "0",     "0.01"),
    Line("cash",  "0",     "0.02"),
    Line("rent",  "0.015", "0"),
    Line("sales", "0",     "0.015"),
    Line("xcash", "0.02",  "0"),
    Line(GhostId, "0.02",  "0"),
    Line("cash",  "-0.01", "0"),
    Line("cash",  "0.01",  "0.01"),
    Line("cash",  "0",     "0"),
    Line("cash",  "abc",   "0") }

\* request bodies: 1 .. MaxLines lines
LineSeqs(n) == [1 .. n -> LineChoices]
Bodies == UNION {LineSeqs(n) : n \in 1 .. MaxLines}

\* lines.reduce((sum, line) => sum + parseFloat(line.debitAmount || '0'), 0)
RECURSIVE SumDebits(_)
SumDebits(lines) ==
  IF lines = <<>> THEN Zero
  ELSE Plus(SumDebits(SubSeq(lines, 1, Len(lines) - 1)),
            parseFloat(lines[Len(lines)].debitAmount))
RECURSIVE SumCredits(_)
SumCredits(lines) ==
  IF lines = <<>> THEN Zero
  ELSE Plus(SumCredits(SubSeq(lines, 1, Len(lines) - 1)),
            parseFloat(lines[Len(lines)].creditAmount))

\* ------------------------------------------------------------ validation
\* The totals (mills) differing by exactly 0.01 whose doubles differ by more
\* than the double 0.01 (sums of up to 4 of this model's amounts, and of up to
\* 5 of its whole-cent amounts).
EpsilonExceededAtBoundary ==
  {<<15, 25>>, <<35, 25>>, <<30, 40>>, <<40, 30>>, <<40, 50>>}

\* Math.abs(totalDebits - totalCredits) > 0.01
ExceedsEpsilon(totalDebits, totalCredits) ==
  LET diff == Abs(Minus(totalDebits, totalCredits))
  IN  /\ ~IsNaN(diff)
      /\ IF Val(diff) = EpsilonMills
         THEN <<Val(totalDebits), Val(totalCredits)>> \in EpsilonExceededAtBoundary
         ELSE Val(diff) > EpsilonMills

\* the three checks the routes make on one line, in their order
LineError(line) ==
  LET debitAmount  == parseFloat(line.debitAmount)
      creditAmount == parseFloat(line.creditAmount)
  IN  IF Lt(debitAmount, Zero) \/ Lt(creditAmount, Zero) THEN "NegativeAmount"
      ELSE IF Gt(debitAmount, Zero) /\ Gt(creditAmount, Zero) THEN "AmbiguousLine"
      ELSE IF StrictEq(debitAmount, Zero) /\ StrictEq(creditAmount, Zero) THEN "EmptyLine"
      ELSE "ok"

\* for (const line of lines) { ... return res.status(400) ... }
FirstLineError(lines) ==
  LET bad == {i \in 1 .. Len(lines) : LineError(lines[i]) # "ok"}
  IN  IF bad = {} THEN "ok"
      ELSE LineError(lines[CHOOSE i \in bad : \A j \in bad : i <= j])

\* validAccountIds of getAccountsByCompany(companyId), read from table accts
ValidAccountIds(accts, companyId) ==
  {a \in DOMAIN accts : accts[a].companyId = companyId}

\* ValidationError without the account check: the lines' accounts are never
\* compared with the company's chart.
ValidationErrorNoAccountCheck(lines, accts, companyId) ==
  IF Len(lines) < MinLines THEN "TooFewLines"
  ELSE IF FirstLineError(lines) # "ok" THEN FirstLineError(lines)
  ELSE IF ExceedsEpsilon(SumDebits(lines), SumCredits(lines)) THEN "Unbalanced"
  ELSE "ok"

\* ValidationError with the account check moved in front of the balance
\* check.
ValidationErrorAccountsFirst(lines, accts, companyId) ==
  IF Len(lines) < MinLines THEN "TooFewLines"
  ELSE IF FirstLineError(lines) # "ok" THEN FirstLineError(lines)
  ELSE IF \E i \in 1 .. Len(lines) :
            lines[i].accountId \notin ValidAccountIds(accts, companyId)
       THEN "UnknownAccount"
  ELSE IF ExceedsEpsilon(SumDebits(lines), SumCredits(lines)) THEN "Unbalanced"
  ELSE "ok"

\* The checks of the POST and PUT routes on the parsed body, in the order the
\* routes make them: the zod schema, the per-line loop, the balance check, the
\* account check.  "ok" when every check passes.
ValidationError(lines, accts, companyId) ==
  IF Len(lines) < MinLines THEN "TooFewLines"
  ELSE IF FirstLineError(lines) # "ok" THEN FirstLineError(lines)
  ELSE IF ExceedsEpsilon(SumDebits(lines), SumCredits(lines)) THEN "Unbalanced"
  ELSE IF \E i \in 1 .. Len(lines) :
            lines[i].accountId \notin ValidAccountIds(accts, companyId)
       THEN "UnknownAccount"
  ELSE "ok"

\* ------------------------------------------------------------ state
\* the requests that can be in progress at once
RequestIds == {1, 2}
EntryIds == 1 .. MaxEntries

VARIABLES
  accounts,           \* table accounts: accountId -> [companyId, type, balance]
  journalEntries,     \* table journal_entries: id -> [companyId, totalAmount]
  journalEntryLines,  \* table journal_entry_lines: journalEntryId -> rows
  call,               \* per request: the handler's position and locals
  tx,                 \* per request: the uncommitted writes of its transaction
  prior,              \* the last committed operation, the accounts before it and
                      \* the account type each of its lines was posted with
  nOps                \* requests started so far

vars == <<accounts, journalEntries, journalEntryLines, call, tx, prior, nOps>>

NoTx == [entries |-> <<>>, lines |-> <<>>, balances |-> <<>>]
NoResponse == [status |-> 0, kind |-> ""]
\* the values a 400 answer's message carries besides its fixed text
NoMessage == <<>>
\* `Debits (${totalDebits.toFixed(2)}) must equal credits (${totalCredits.toFixed(2)})`
RejectionMessage(err, lines) ==
  IF err = "Unbalanced"
  THEN [debits  |-> totalToFixed2(SumDebits(lines)),
        credits |-> totalToFixed2(SumCredits(lines))]
  ELSE NoMessage
NoEntry == [companyId |-> "", totalAmount |-> NaN]
NoPrior == [op |-> "none", id |-> 0, before |-> InitAccounts, types |-> <<>>]
NoPre == [accounts |-> InitAccounts, journalEntries |-> <<>>,
          journalEntryLines |-> <<>>, prior |-> NoPrior]
IdleCall ==
  [pc |-> "idle", op |-> "none", id |-> 0, companyId |-> "", lines |-> <<>>,
   entry |-> NoEntry,
   existingLines |-> <<>>, i |-> 0, account |-> <<>>, response |-> NoResponse,
   message |-> NoMessage, failedAt |-> "", types |-> <<>>, pre |-> NoPre]

Init ==
  /\ accounts = InitAccounts
  /\ journalEntries = <<>>
  /\ journalEntryLines = <<>>
  /\ call = [p \in RequestIds |-> IdleCall]
  /\ tx = [p \in RequestIds |-> NoTx]
  /\ prior = NoPrior
  /\ nOps = 0

\* the committed database as a request finds it when it arrives
Snapshot ==
  [accounts |-> accounts, journalEntries |-> journalEntries,
   journalEntryLines |-> journalEntryLines, prior |-> prior]

\* ------------------------------------------------------------ the transaction
\* What a statement of p's transaction sees: the committed rows overlaid with
\* the transaction's own writes (READ COMMITTED).
TxAccount(p, a) ==
  IF a \notin DOMAIN accounts THEN <<>>
  ELSE IF a \in DOMAIN tx[p].balances
       THEN <<[accounts[a] EXCEPT !.balance = tx[p].balances[a]]>>
       ELSE <<accounts[a]>>
TxEntry(p, id) ==
  IF id \in DOMAIN tx[p].entries THEN <<tx[p].entries[id]>>
  ELSE IF id \in DOMAIN journalEntries THEN <<journalEntries[id]>>
  ELSE <<>>
TxLines(p, id) ==
  IF id \in DOMAIN tx[p].lines THEN tx[p].lines[id]
  ELSE IF id \in DOMAIN journalEntryLines THEN journalEntryLines[id]
  ELSE <<>>

\* A row another transaction has written and not yet committed is locked: an
\* UPDATE of it waits for that transaction to end.
AccountLocked(p, a) == \E q \in RequestIds \ {p} : a \in DOMAIN tx[q].balances
EntryLocked(p, id)  == \E q \in RequestIds \ {p} : id \in DOMAIN tx[q].entries

\* gen_random_uuid(): an id no committed or uncommitted entry has
FreeIds == EntryIds \ (DOMAIN journalEntries \cup
                       UNION {DOMAIN tx[q].entries : q \in RequestIds})
NewId == CHOOSE id \in FreeIds : \A other \in FreeIds : id <= other

\* the rows of journal_entry_lines a request's lines are stored as
StoredLines(lines) ==
  [k \in 1 .. Len(lines) |->
     [accountId    |-> lines[k].accountId,
      debitAmount  |-> PgNumeric(lines[k].debitAmount),
      creditAmount |-> PgNumeric(lines[k].creditAmount)]]
\* the insert fails on a string that is no number and on an accountId that
\* references no account
InsertLinesOk(lines) ==
  \A k \in 1 .. Len(lines) :
    /\ PgCastOk(lines[k].debitAmount)
    /\ PgCastOk(lines[k].creditAmount)
    /\ lines[k].accountId \in DOMAIN accounts

\* WriteBalance issued on the connection pool instead of the transaction: the
\* write is committed at once.
WriteBalanceOutsideTx(p, a, balance) ==
  /\ accounts' = [accounts EXCEPT ![a].balance = balance]
  /\ UNCHANGED tx
\* WriteLines issued on the connection pool instead of the transaction.
WriteLinesOutsideTx(p, id, rows) ==
  /\ journalEntryLines' = (id :> rows) @@ journalEntryLines
  /\ UNCHANGED tx

\* tx.update(accounts).set({ balance: ... }): the write stays in the transaction
WriteBalance(p, a, balance) ==
  /\ tx' = [tx EXCEPT ![p].balances = (a :> balance) @@ @]
  /\ UNCHANGED accounts
\* WriteEntry issued on the connection pool instead of the transaction: the
\* header is committed at once, before the lines are written.
WriteEntryOutsideTx(p, id, entry) ==
  /\ journalEntries' = (id :> entry) @@ journalEntries
  /\ UNCHANGED tx
\* tx.insert(journalEntries) / tx.update(journalEntries)
WriteEntry(p, id, entry) ==
  /\ tx' = [tx EXCEPT ![p].entries = (id :> entry) @@ @]
  /\ UNCHANGED journalEntries
\* tx.insert(journalEntryLines) / tx.delete(journalEntryLines)
WriteLines(p, id, rows) ==
  /\ tx' = [tx EXCEPT ![p].lines = (id :> rows) @@ @]
  /\ UNCHANGED journalEntryLines

\* the transaction callback threw: db.transaction rolls back and rethrows, and
\* the route's catch answers 400
Rollback(p, kind) ==
  /\ tx' = [tx EXCEPT ![p] = NoTx]
  /\ call' = [call EXCEPT ![p] =
       [IdleCall EXCEPT !.pc = "done", !.op = call[p].op, !.id = call[p].id,
                        !.companyId = call[p].companyId,
                        !.lines = call[p].lines, !.pre = call[p].pre,
                        !.failedAt = call[p].pc,
                        !.response = [status |-> 400, kind |-> kind]]]
  /\ UNCHANGED <<accounts, journalEntries, journalEntryLines, prior, nOps>>

\* ------------------------------------------------------------ balance arithmetic
\* createJournalEntry: newBalance += debit - credit, or += credit - debit
createNewBalance(account, line) ==
  LET debit  == parseFloat(line.debitAmount)
      credit == parseFloat(line.creditAmount)
  IN  IF DebitNormal(account.type)
      THEN toFixed2(account.balance, Val(Minus(debit, credit)))
      ELSE toFixed2(account.balance, Val(Minus(credit, debit)))

\* reverseNewBalance with += where the code has -=: the old line is applied a
\* second time instead of being undone.
reverseAddsAgain(account, row) ==
  LET debit  == parseStored(row.debitAmount)
      credit == parseStored(row.creditAmount)
  IN  IF DebitNormal(account.type)
      THEN toFixed2(account.balance, Val(Minus(debit, credit)))
      ELSE toFixed2(account.balance, Val(Minus(credit, debit)))

\* updateJournalEntry, reversal of a stored line: newBalance -= debit - credit,
\* or -= credit - debit
reverseNewBalance(account, row) ==
  LET debit  == parseStored(row.debitAmount)
      credit == parseStored(row.creditAmount)
  IN  IF DebitNormal(account.type)
      THEN toFixed2(account.balance, -Val(Minus(debit, credit)))
      ELSE toFixed2(account.balance, -Val(Minus(credit, debit)))

\* updateJournalEntry, application of a new line
applyNewBalance(account, line) ==
  LET debit  == parseFloat(line.debitAmount)
      credit == parseFloat(line.creditAmount)
  IN  IF DebitNormal(account.type)
      THEN toFixed2(account.balance, Val(Minus(debit, credit)))
      ELSE toFixed2(account.balance, Val(Minus(credit, debit)))

\* ------------------------------------------------------------ the entry header
\* new Date(s): the instant an ISO date string denotes (days since the epoch),
\* Invalid Date for any other string the requests of this model carry.
NewDate(s) ==
  CASE s = "2024-01-01"               -> [kind |-> "Date", time |-> 19723]
    [] s = "2024-01-02"               -> [kind |-> "Date", time |-> 19724]
    [] s = "2024-01-02T00:00:00.000Z" -> [kind |-> "Date", time |-> 19724]
    [] OTHER                          -> [kind |-> "InvalidDate", time |-> 0]

\* the header a POST request of this model carries besides companyId
PostedDate == "2024-01-01"
\* entryWithCreatedBy of the POST route: the parsed entry with the date
\* converted, the total recomputed and the system user as creator
entryWithCreatedBy(companyId, lines) ==
  [companyId   |-> companyId,
   entryNumber |-> "JE-1",
   date        |-> NewDate(PostedDate).time,
   description |-> "posted",
   reference   |-> "ref-1",
   totalAmount |-> totalToFixed2(SumDebits(lines)),
   createdBy   |-> "system_user_id_1"]

\* the entry object {} of a PUT request that names no header field
NoHeaderFields == [f \in {} |-> ""]

\* entryUpdateSchema with .passthrough(): keys the schema does not name stay
\* in the parsed entry.
entryUpdateSchemaPassthrough(entry) == entry

\* entryUpdateSchema.parse(entry): the five optional keys; zod strips every
\* other key of the object
entryUpdateSchema(entry) ==
  [f \in DOMAIN entry \cap {"entryNumber", "date", "description", "reference",
                            "totalAmount"} |-> entry[f]]

\* updatedEntryData of the PUT route:
\* { ...entry, ...(entry.date && { date: new Date(entry.date) }), totalAmount }
updatedEntryData(entry, lines) ==
  LET parsed == entryUpdateSchema(entry)
  IN  [f \in DOMAIN parsed \cup {"totalAmount"} |->
         IF f = "totalAmount" THEN totalToFixed2(SumDebits(lines))
         ELSE IF f = "date"
              THEN IF parsed[f] = "" THEN [kind |-> "string", time |-> 0]
                   ELSE NewDate(parsed[f])
              ELSE parsed[f]]

\* the timestamp column maps its value with toISOString(), which throws on a
\* string and on Invalid Date
SetEntryThrows(entryUpdates) ==
  /\ "date" \in DOMAIN entryUpdates
  /\ entryUpdates["date"].kind # "Date"

\* .set({ ...entryUpdates, updatedAt }) on one row of journal_entries
SetEntry(row, entryUpdates) ==
  [f \in DOMAIN row |->
     IF f \in DOMAIN entryUpdates
     THEN IF f = "date" THEN entryUpdates[f].time ELSE entryUpdates[f]
     ELSE row[f]]

\* ------------------------------------------------------------ POST /api/journal-entries
\* The route up to its call of storage.createJournalEntry: the body is parsed
\* and checked; a body that fails a check is answered 400 and nothing else
\* happens.
PostJournalEntry(p, companyId, lines) ==
  /\ call[p].pc = "idle"
  /\ nOps < MaxOps
  /\ nOps' = nOps + 1
  /\ LET err == ValidationError(lines, accounts, companyId)
     IN  IF err # "ok"
         THEN call' = [call EXCEPT ![p] =
                [IdleCall EXCEPT !.pc = "done", !.op = "create", !.lines = lines,
                                 !.companyId = companyId,
                                 !.response = [status |-> 400, kind |-> err],
                                 !.message = RejectionMessage(err, lines),
                                 !.pre = Snapshot]]
         ELSE /\ FreeIds # {}
              /\ call' = [call EXCEPT ![p] =
                   [IdleCall EXCEPT !.pc = "c_insertEntry", !.op = "create",
                                    !.lines = lines, !.companyId = companyId,
                                    !.entry = entryWithCreatedBy(companyId, lines),
                                    !.pre = Snapshot]]
  /\ UNCHANGED <<accounts, journalEntries, journalEntryLines, tx, prior>>

\* ------------------------------------------------------------ createJournalEntry
\* tx.insert(journalEntries).values(entry).returning()
CreateInsertEntry(p) ==
  /\ call[p].pc = "c_insertEntry"
  /\ LET id == NewId
     IN  /\ WriteEntry(p, id, call[p].entry)
         /\ call' = [call EXCEPT ![p].pc = "c_insertLines", ![p].id = id]
  /\ UNCHANGED <<accounts, journalEntryLines, prior, nOps>>

\* tx.insert(journalEntryLines).values(linesWithEntryId)
CreateInsertLines(p) ==
  /\ call[p].pc = "c_insertLines"
  /\ IF InsertLinesOk(call[p].lines)
     THEN /\ WriteLines(p, call[p].id,
                        TxLines(p, call[p].id) \o StoredLines(call[p].lines))
          /\ call' = [call EXCEPT ![p].pc = "c_select", ![p].i = 1]
          /\ UNCHANGED <<accounts, journalEntries, prior, nOps>>
     ELSE Rollback(p, "StorageFailure")

\* const [account] = await tx.select().from(accounts).where(eq(accounts.id, line.accountId))
CreateSelectAccount(p) ==
  /\ call[p].pc = "c_select"
  /\ LET account == TxAccount(p, call[p].lines[call[p].i].accountId)
     IN  call' = [call EXCEPT
           ![p].account = account,
           ![p].pc = IF account # <<>> THEN "c_update"
                     ELSE IF call[p].i < Len(call[p].lines) THEN "c_select"
                     ELSE "commit",
           ![p].types = IF account # <<>> THEN @ ELSE Append(@, ""),
           ![p].i = IF account # <<>> THEN @ ELSE @ + 1]
  /\ UNCHANGED <<accounts, journalEntries, journalEntryLines, tx, prior, nOps>>

\* await tx.update(accounts).set({ balance: newBalance.toFixed(2), ... })
CreateUpdateBalance(p) ==
  /\ call[p].pc = "c_update"
  /\ LET line    == call[p].lines[call[p].i]
         account == call[p].account[1]
     IN  /\ ~AccountLocked(p, line.accountId)
         /\ WriteBalance(p, line.accountId, createNewBalance(account, line))
  /\ call' = [call EXCEPT
       ![p].pc = IF call[p].i < Len(call[p].lines) THEN "c_select" ELSE "commit",
       ![p].types = Append(@, call[p].account[1].type),
       ![p].i = @ + 1]
  /\ UNCHANGED <<journalEntries, journalEntryLines, prior, nOps>>

\* Commit whose promise never settles: the handler stays at its await.
CommitNeverSettles(p) ==
  /\ call[p].pc = "commit"
  /\ UNCHANGED vars

\* ------------------------------------------------------------ commit, failure, answer
\* the callback returned: the transaction commits and the route answers 200
Commit(p) ==
  /\ call[p].pc = "commit"
  /\ accounts' = [a \in DOMAIN accounts |->
                    IF a \in DOMAIN tx[p].balances
                    THEN [accounts[a] EXCEPT !.balance = tx[p].balances[a]]
                    ELSE accounts[a]]
  /\ journalEntries' = tx[p].entries @@ journalEntries
  /\ journalEntryLines' = tx[p].lines @@ journalEntryLines
  /\ tx' = [tx EXCEPT ![p] = NoTx]
  /\ prior' = [op |-> call[p].op, id |-> call[p].id, before |-> accounts,
               types |-> call[p].types]
  /\ call' = [call EXCEPT ![p] =
       [IdleCall EXCEPT !.pc = "done", !.op = call[p].op, !.id = call[p].id,
                        !.companyId = call[p].companyId,
                        !.lines = call[p].lines, !.pre = call[p].pre,
                        !.response = [status |-> 200, kind |-> "ok"]]]
  /\ UNCHANGED nOps

TxPcs == {"c_insertEntry", "c_insertLines", "c_select", "c_update",
          "u_selectEntry", "u_selectLines", "u_revSelect", "u_revUpdate",
          "u_updateEntry", "u_deleteLines", "u_insertLines", "u_appSelect",
          "u_appUpdate", "commit"}

\* The storage call a transaction is about to make fails (connection loss,
\* constraint violation, deadlock victim, failed commit): the transaction is
\* rolled back.
StorageFailure(p) ==
  /\ call[p].pc \in TxPcs
  /\ Rollback(p, "StorageFailure")

\* the response has been sent
Return(p) ==
  /\ call[p].pc = "done"
  /\ call' = [call EXCEPT ![p] = IdleCall]
  /\ UNCHANGED <<accounts, journalEntries, journalEntryLines, tx, prior, nOps>>

\* ------------------------------------------------------------ PUT /api/journal-entries/:id
\* PutJournalEntry with the lookup of the entry moved behind the checks of the
\* lines: a body that fails a check is answered 400 whether or not the entry
\* exists.
PutJournalEntryValidatesFirst(p, id, entry, lines) ==
  /\ call[p].pc = "idle"
  /\ nOps < MaxOps
  /\ nOps' = nOps + 1
  /\ LET companyId == IF id \in DOMAIN journalEntries
                      THEN journalEntries[id].companyId ELSE "c1"
         started == [IdleCall EXCEPT
                        !.op = "update", !.id = id, !.lines = lines,
                        !.companyId = IF id \in DOMAIN journalEntries
                                      THEN journalEntries[id].companyId ELSE "",
                        !.pre = Snapshot]
         answer(status, kind) ==
           [started EXCEPT !.pc = "done",
                           !.response = [status |-> status, kind |-> kind],
                           !.message = RejectionMessage(kind, lines)]
         err == ValidationError(lines, accounts, companyId)
     IN  IF err # "ok"
         THEN call' = [call EXCEPT ![p] = answer(400, err)]
         ELSE IF id \notin DOMAIN journalEntries
         THEN call' = [call EXCEPT ![p] = answer(404, "NotFound")]
         ELSE call' = [call EXCEPT ![p] =
                [started EXCEPT
                   !.pc = "u_selectEntry",
                   !.entry = updatedEntryData(entry, lines)]]
  /\ UNCHANGED <<accounts, journalEntries, journalEntryLines, tx, prior>>

\* The route up to its call of storage.updateJournalEntry: the body is parsed,
\* the entry is looked up (404 when absent), and the new lines are checked
\* against the accounts of the entry's company.
PutJournalEntry(p, id, entry, lines) ==
  /\ call[p].pc = "idle"
  /\ nOps < MaxOps
  /\ nOps' = nOps + 1
  /\ LET started == [IdleCall EXCEPT
                        !.op = "update", !.id = id, !.lines = lines,
                        !.companyId = IF id \in DOMAIN journalEntries
                                      THEN journalEntries[id].companyId ELSE "",
                        !.pre = Snapshot]
         answer(status, kind) ==
           [started EXCEPT !.pc = "done",
                           !.response = [status |-> status, kind |-> kind],
                           !.message = RejectionMessage(kind, lines)]
     IN  IF Len(lines) < MinLines
         THEN call' = [call EXCEPT ![p] = answer(400, "TooFewLines")]
         ELSE IF id \notin DOMAIN journalEntries
         THEN call' = [call EXCEPT ![p] = answer(404, "NotFound")]
         ELSE LET existingEntry == journalEntries[id]
                  err == ValidationError(lines, accounts, existingEntry.companyId)
              IN  IF err # "ok"
                  THEN call' = [call EXCEPT ![p] = answer(400, err)]
                  ELSE call' = [call EXCEPT ![p] =
                         [started EXCEPT
                            !.pc = "u_selectEntry",
                            !.entry = updatedEntryData(entry, lines)]]
  /\ UNCHANGED <<accounts, journalEntries, journalEntryLines, tx, prior>>

\* ------------------------------------------------------------ updateJournalEntry
\* const [existingEntry] = await tx.select().from(journalEntries)...;
\* if (!existingEntry) throw new Error('Journal entry not found')
UpdateSelectEntry(p) ==
  /\ call[p].pc = "u_selectEntry"
  /\ IF TxEntry(p, call[p].id) = <<>>
     THEN Rollback(p, "NotFound")
     ELSE /\ call' = [call EXCEPT ![p].pc = "u_selectLines"]
          /\ UNCHANGED <<accounts, journalEntries, journalEntryLines, tx, prior, nOps>>

\* const existingLines = await tx.select().from(journalEntryLines)...
UpdateSelectLines(p) ==
  /\ call[p].pc = "u_selectLines"
  /\ LET existingLines == TxLines(p, call[p].id)
     IN  call' = [call EXCEPT
           ![p].existingLines = existingLines,
           ![p].i = 1,
           ![p].pc = IF existingLines = <<>> THEN "u_updateEntry" ELSE "u_revSelect"]
  /\ UNCHANGED <<accounts, journalEntries, journalEntryLines, tx, prior, nOps>>

\* reversal loop: select the account of an existing line
UpdateReverseSelect(p) ==
  /\ call[p].pc = "u_revSelect"
  /\ LET account == TxAccount(p, call[p].existingLines[call[p].i].accountId)
     IN  call' = [call EXCEPT
           ![p].account = account,
           ![p].pc = IF account # <<>> THEN "u_revUpdate"
                     ELSE IF call[p].i < Len(call[p].existingLines) THEN "u_revSelect"
                     ELSE "u_updateEntry",
           ![p].i = IF account # <<>> THEN @ ELSE @ + 1]
  /\ UNCHANGED <<accounts, journalEntries, journalEntryLines, tx, prior, nOps>>

\* reversal loop: write the account's balance with the line's effect undone
UpdateReverseBalance(p) ==
  /\ call[p].pc = "u_revUpdate"
  /\ LET row     == call[p].existingLines[call[p].i]
         account == call[p].account[1]
     IN  /\ ~AccountLocked(p, row.accountId)
         /\ WriteBalance(p, row.accountId, reverseNewBalance(account, row))
  /\ call' = [call EXCEPT
       ![p].pc = IF call[p].i < Len(call[p].existingLines) THEN "u_revSelect"
                 ELSE "u_updateEntry",
       ![p].i = @ + 1]
  /\ UNCHANGED <<journalEntries, journalEntryLines, prior, nOps>>

\* tx.update(journalEntries).set({ ...entryUpdates, updatedAt }).where(id)
UpdateEntryHeader(p) ==
  /\ call[p].pc = "u_updateEntry"
  /\ ~EntryLocked(p, call[p].id)
  /\ IF SetEntryThrows(call[p].entry)
     THEN Rollback(p, "StorageFailure")
     ELSE /\ LET row == TxEntry(p, call[p].id)
             IN  IF row = <<>>
                 THEN UNCHANGED <<tx, journalEntries>>
                 ELSE WriteEntry(p, call[p].id, SetEntry(row[1], call[p].entry))
          /\ call' = [call EXCEPT ![p].pc = "u_deleteLines"]
          /\ UNCHANGED <<accounts, journalEntryLines, prior, nOps>>

\* tx.delete(journalEntryLines).where(eq(journalEntryLines.journalEntryId, id))
UpdateDeleteLines(p) ==
  /\ call[p].pc = "u_deleteLines"
  /\ WriteLines(p, call[p].id, <<>>)
  /\ call' = [call EXCEPT ![p].pc = "u_insertLines"]
  /\ UNCHANGED <<accounts, journalEntries, prior, nOps>>

\* tx.insert(journalEntryLines).values(linesWithEntryId)
UpdateInsertLines(p) ==
  /\ call[p].pc = "u_insertLines"
  /\ IF InsertLinesOk(call[p].lines)
     THEN /\ WriteLines(p, call[p].id,
                        TxLines(p, call[p].id) \o StoredLines(call[p].lines))
          /\ call' = [call EXCEPT ![p].pc = "u_appSelect", ![p].i = 1]
          /\ UNCHANGED <<accounts, journalEntries, prior, nOps>>
     ELSE Rollback(p, "StorageFailure")

\* apply loop: select the account of a new line
UpdateApplySelect(p) ==
  /\ call[p].pc = "u_appSelect"
  /\ LET account == TxAccount(p, call[p].lines[call[p].i].accountId)
     IN  call' = [call EXCEPT
           ![p].account = account,
           ![p].pc = IF account # <<>> THEN "u_appUpdate"
                     ELSE IF call[p].i < Len(call[p].lines) THEN "u_appSelect"
                     ELSE "commit",
           ![p].types = IF account # <<>> THEN @ ELSE Append(@, ""),
           ![p].i = IF account # <<>> THEN @ ELSE @ + 1]
  /\ UNCHANGED <<accounts, journalEntries, journalEntryLines, tx, prior, nOps>>

\* apply loop: write the account's balance with the new line's effect
UpdateApplyBalance(p) ==
  /\ call[p].pc = "u_appUpdate"
  /\ LET line    == call[p].lines[call[p].i]
         account == call[p].account[1]
     IN  /\ ~AccountLocked(p, line.accountId)
         /\ WriteBalance(p, line.accountId, applyNewBalance(account, line))
  /\ call' = [call EXCEPT
       ![p].pc = IF call[p].i < Len(call[p].lines) THEN "u_appSelect" ELSE "commit",
       ![p].types = Append(@, call[p].account[1].type),
       ![p].i = @ + 1]
  /\ UNCHANGED <<journalEntries, journalEntryLines, prior, nOps>>

\* ------------------------------------------------------------ specifications
\* the companies whose ledgers clients post to
PostingCompanies == {"c1"}

\* One request at a time: request 1 is the only one served.
Next ==
  \/ \E lines \in Bodies, c \in PostingCompanies : PostJournalEntry(1, c, lines)
  \/ \E lines \in Bodies, id \in EntryIds : PutJournalEntry(1, id, NoHeaderFields, lines)
  \/ CreateInsertEntry(1)
  \/ CreateInsertLines(1)
  \/ CreateSelectAccount(1)
  \/ CreateUpdateBalance(1)
  \/ UpdateSelectEntry(1)
  \/ UpdateSelectLines(1)
  \/ UpdateReverseSelect(1)
  \/ UpdateReverseBalance(1)
  \/ UpdateEntryHeader(1)
  \/ UpdateDeleteLines(1)
  \/ UpdateInsertLines(1)
  \/ UpdateApplySelect(1)
  \/ UpdateApplyBalance(1)
  \/ Commit(1)
  \/ StorageFailure(1)
  \/ Return(1)

Spec == Init /\ [][Next]_vars

\* Two POST requests in progress at once, each served once; their bodies are
\* postings between cash and sales.
ConcurrentLines ==
  { Line("cash",  "0.02", "0"),
    Line("sales", "0",    "0.02"),
    Line("cash",  "0",    "0.02") }
ConcurrentBodies == [1 .. MinLines -> ConcurrentLines]

NextConcurrent ==
  \E p \in RequestIds :
    \/ \E lines \in ConcurrentBodies, c \in PostingCompanies :
         PostJournalEntry(p, c, lines)
    \/ CreateInsertEntry(p)
    \/ CreateInsertLines(p)
    \/ CreateSelectAccount(p)
    \/ CreateUpdateBalance(p)
    \/ Commit(p)
    \/ StorageFailure(p)

SpecConcurrent == Init /\ [][NextConcurrent]_vars

\* ------------------------------------------------------------ properties
\* no request is inside a transaction
Quiescent == \A p \in RequestIds : call[p].pc \in {"idle", "done"}

\* the directional delta of a line, in cents
DirectionalDelta(type, debit, credit) ==
  IF type \in {"ASSET", "EXPENSE"} THEN debit - credit
  ELSE IF type \in {"LIABILITY", "EQUITY", "REVENUE"} THEN credit - debit
  ELSE 0

\* the net directional delta of the rows posted against account a of a type
RECURSIVE NetOfRows(_, _, _)
NetOfRows(rows, a, type) ==
  IF rows = <<>> THEN 0
  ELSE LET row == rows[Len(rows)]
       IN  NetOfRows(SubSeq(rows, 1, Len(rows) - 1), a, type)
           + (IF row.accountId = a
              THEN DirectionalDelta(type, row.debitAmount, row.creditAmount)
              ELSE 0)

\* the sum of the values of a function with a finite domain
RECURSIVE SumFn(_)
SumFn(f) ==
  IF DOMAIN f = {} THEN 0
  ELSE LET x == CHOOSE y \in DOMAIN f : TRUE
       IN  f[x] + SumFn([y \in DOMAIN f \ {x} |-> f[y]])

\* the net of every stored line against account a
NetPosted(a) ==
  SumFn([id \in DOMAIN journalEntryLines |->
           NetOfRows(journalEntryLines[id], a, accounts[a].type)])

\* the sum of the balances of a company's accounts of a type
SumBalances(companyId, type) ==
  SumFn([a \in {b \in DOMAIN accounts : /\ accounts[b].companyId = companyId
                                        /\ accounts[b].type = type}
           |-> accounts[a].balance])

RECURSIVE SumDebitRows(_)
SumDebitRows(rows) ==
  IF rows = <<>> THEN 0
  ELSE SumDebitRows(SubSeq(rows, 1, Len(rows) - 1)) + rows[Len(rows)].debitAmount
RECURSIVE SumCreditRows(_)
SumCreditRows(rows) ==
  IF rows = <<>> THEN 0
  ELSE SumCreditRows(SubSeq(rows, 1, Len(rows) - 1)) + rows[Len(rows)].creditAmount

\* the committed tables are what they were when request p arrived
DatabaseAsBefore(p) ==
  /\ accounts = call[p].pre.accounts
  /\ journalEntries = call[p].pre.journalEntries
  /\ journalEntryLines = call[p].pre.journalEntryLines

Committed(p, op) ==
  /\ call[p].pc = "done"
  /\ call[p].op = op
  /\ call[p].response.status = 200

\* C1: when no transaction is open, every account's balance is the net sum of
\* the directional deltas of the journal-entry lines stored against it.
C1_BalanceIsNetOfStoredLines ==
  Quiescent => \A a \in DOMAIN accounts : accounts[a].balance = NetPosted(a)

\* C2: when no transaction is open, in every company the ASSET balances sum to
\* the LIABILITY plus EQUITY plus REVENUE balances minus the EXPENSE balances.
C2_AccountingEquation ==
  Quiescent =>
    \A c \in CompanyIds :
      SumBalances(c, "ASSET") =
        SumBalances(c, "LIABILITY") + SumBalances(c, "EQUITY")
        + SumBalances(c, "REVENUE") - SumBalances(c, "EXPENSE")

\* C3: the stored lines of every committed entry have equal debit and credit
\* sums, exactly.
C3_StoredDebitsEqualCredits ==
  \A id \in DOMAIN journalEntryLines :
    SumDebitRows(journalEntryLines[id]) = SumCreditRows(journalEntryLines[id])

\* The request p is serving breaks a rule of validation: fewer than 2 lines, a
\* negative amount, a line with both sides, a line with neither, totals that
\* differ by more than the tolerance, or an account that is not in the chart
\* of the entry's company as the request found it.
RequestInvalid(p) ==
  LET lines == call[p].lines
      debit(i)  == parseFloat(lines[i].debitAmount)
      credit(i) == parseFloat(lines[i].creditAmount)
      chart == call[p].pre.accounts
  IN  \/ Len(lines) < 2
      \/ \E i \in 1 .. Len(lines) : Lt(debit(i), Zero) \/ Lt(credit(i), Zero)
      \/ \E i \in 1 .. Len(lines) : Gt(debit(i), Zero) /\ Gt(credit(i), Zero)
      \/ \E i \in 1 .. Len(lines) :
           StrictEq(debit(i), Zero) /\ StrictEq(credit(i), Zero)
      \/ ExceedsEpsilon(SumDebits(lines), SumCredits(lines))
      \/ \E i \in 1 .. Len(lines) :
           \/ lines[i].accountId \notin DOMAIN chart
           \/ chart[lines[i].accountId].companyId # call[p].companyId

\* request p is a Create, or an Update of an entry that exists
Addressed(p) ==
  /\ call[p].pc # "idle"
  /\ \/ call[p].op = "create"
     \/ call[p].id \in DOMAIN call[p].pre.journalEntries

\* C4: a Create or Update whose body breaks a rule of validation is answered
\* 400 without ever entering a transaction, and no balance, entry or line is
\* changed.
C4_InvalidRequestChangesNothing ==
  \A p \in RequestIds :
    (Addressed(p) /\ RequestInvalid(p)) =>
      /\ call[p].pc = "done"
      /\ call[p].response.status = 400
      /\ call[p].failedAt = ""
      /\ tx[p] = NoTx
      /\ DatabaseAsBefore(p)

\* an Update naming a cross-company or unknown account was rejected while an
\* entry with posted balances exists
C4_Witness ==
  \E p \in RequestIds :
    /\ Addressed(p) /\ RequestInvalid(p)
    /\ call[p].op = "update"
    /\ call[p].response.kind = "UnknownAccount"
    /\ Len(call[p].lines) = MaxLines
    /\ \E a \in DOMAIN accounts : accounts[a].balance # 0

\* C5: when a storage step of Create fails after the transaction was opened,
\* the committed tables are what they were before the call and nothing of the
\* transaction remains.
C5_FailedCreateLeavesNoTrace ==
  \A p \in RequestIds :
    (call[p].pc = "done" /\ call[p].op = "create" /\ call[p].failedAt # "") =>
      /\ tx[p] = NoTx
      /\ DatabaseAsBefore(p)

\* a Create failed at its commit, after the header, the lines and every
\* balance had been written
C5_Witness ==
  \E p \in RequestIds :
    /\ call[p].pc = "done" /\ call[p].op = "create"
    /\ call[p].failedAt = "commit"
    /\ \A i \in 1 .. Len(call[p].lines) : call[p].lines[i].accountId \in DOMAIN accounts

\* C6: when a step of Update fails before commit, every balance, the entry
\* header and the entry's stored lines are as they were before the call.
C6_FailedUpdateLeavesNoTrace ==
  \A p \in RequestIds :
    (call[p].pc = "done" /\ call[p].op = "update" /\ call[p].failedAt # "") =>
      /\ tx[p] = NoTx
      /\ DatabaseAsBefore(p)

\* an Update failed at its commit, after reversal, header rewrite, deletion,
\* insertion and application had all been done
C6_Witness ==
  \E p \in RequestIds :
    /\ call[p].pc = "done" /\ call[p].op = "update"
    /\ call[p].failedAt = "commit"
    /\ call[p].pre.journalEntryLines[call[p].id] # StoredLines(call[p].lines)

\* C7: after a committed Update the entry's stored lines are exactly the new
\* lines, and every balance is its value before the Update minus the net of
\* the old lines plus the net of the new lines.
C7_UpdateReplacesLinesAndBalances ==
  \A p \in RequestIds :
    Committed(p, "update") =>
      LET id     == call[p].id
          oldRows == call[p].pre.journalEntryLines[id]
          newRows == StoredLines(call[p].lines)
      IN  /\ journalEntryLines[id] = newRows
          /\ \A a \in DOMAIN accounts :
               accounts[a].balance =
                 call[p].pre.accounts[a].balance
                 - NetOfRows(oldRows, a, accounts[a].type)
                 + NetOfRows(newRows, a, accounts[a].type)

\* the net of a request's lines on account a, in mills
RECURSIVE NetMills(_, _)
NetMills(lines, a) ==
  IF lines = <<>> THEN 0
  ELSE LET line == lines[Len(lines)]
       IN  NetMills(SubSeq(lines, 1, Len(lines) - 1), a)
           + (IF line.accountId = a
              THEN Val(parseFloat(line.debitAmount)) - Val(parseFloat(line.creditAmount))
              ELSE 0)

\* C8: when entry E is created and the next committed operation updates E to
\* lines whose net effect on every account is zero, every account E touched
\* has the balance it had before E was created.
C8_CreateThenNeutralUpdateRestores ==
  \A p \in RequestIds :
    ( /\ Committed(p, "update")
      /\ call[p].pre.prior.op = "create"
      /\ call[p].pre.prior.id = call[p].id
      /\ \A a \in DOMAIN accounts : NetMills(call[p].lines, a) = 0 ) =>
      LET rowsOfE == call[p].pre.journalEntryLines[call[p].id]
      IN  \A k \in 1 .. Len(rowsOfE) :
            accounts[rowsOfE[k].accountId].balance =
              call[p].pre.prior.before[rowsOfE[k].accountId].balance

\* how often a line with this account and these amounts (mills) occurs
CountRequestLine(lines, a, d, c) ==
  Cardinality({i \in 1 .. Len(lines) :
                 /\ lines[i].accountId = a
                 /\ parseFloat(lines[i].debitAmount) = Num(d)
                 /\ parseFloat(lines[i].creditAmount) = Num(c)})
CountStoredRow(rows, a, d, c) ==
  Cardinality({i \in 1 .. Len(rows) :
                 /\ rows[i].accountId = a
                 /\ parseStored(rows[i].debitAmount) = Num(d)
                 /\ parseStored(rows[i].creditAmount) = Num(c)})

\* the request's lines are the entry's stored lines: the same accounts with
\* the same amounts the same number of times
IdenticalLines(lines, rows) ==
  /\ Len(lines) = Len(rows)
  /\ \A i \in 1 .. Len(rows) :
       LET a == rows[i].accountId
           d == rows[i].debitAmount * 10
           c == rows[i].creditAmount * 10
       IN  CountRequestLine(lines, a, d, c) = CountStoredRow(rows, a, d, c)

\* C9: a committed Update whose lines are the lines the entry already has
\* leaves every balance as it was (so any number of such Updates does).
C9_IdenticalUpdateKeepsBalances ==
  \A p \in RequestIds :
    ( /\ Committed(p, "update")
      /\ IdenticalLines(call[p].lines, call[p].pre.journalEntryLines[call[p].id]) ) =>
      \A a \in DOMAIN accounts :
        accounts[a].balance = call[p].pre.accounts[a].balance

\* an entry with nonzero balances was updated with its own lines, right after
\* an earlier Update of the same entry
C9_Witness ==
  \E p \in RequestIds :
    /\ Committed(p, "update")
    /\ IdenticalLines(call[p].lines, call[p].pre.journalEntryLines[call[p].id])
    /\ call[p].pre.prior.op = "update"
    /\ call[p].pre.prior.id = call[p].id
    /\ \E a \in DOMAIN accounts : accounts[a].balance # 0

\* the accounts after the lines of one Create are posted to accts, one line
\* after the other
RECURSIVE PostLines(_, _)
PostLines(accts, lines) ==
  IF lines = <<>> THEN accts
  ELSE LET before == PostLines(accts, SubSeq(lines, 1, Len(lines) - 1))
           line   == lines[Len(lines)]
       IN  [before EXCEPT ![line.accountId].balance =
                            createNewBalance(before[line.accountId], line)]

\* C10: when two concurrent Creates have both committed, the balances are
\* those of running the two one after the other, in one order or the other.
C10_ConcurrentCreatesLoseNoUpdate ==
  (Committed(1, "create") /\ Committed(2, "create")) =>
    \/ accounts = PostLines(PostLines(InitAccounts, call[1].lines), call[2].lines)
    \/ accounts = PostLines(PostLines(InitAccounts, call[2].lines), call[1].lines)

\* ------------------------------------------------------------ concurrent Updates
\* One entry is created by request 1; then each request updates that entry
\* once, the two Updates in progress at once.
NextConcurrentUpdates ==
  \/ \E lines \in ConcurrentBodies, c \in PostingCompanies :
       /\ journalEntries = <<>>
       /\ PostJournalEntry(1, c, lines)
  \/ CreateInsertEntry(1)
  \/ CreateInsertLines(1)
  \/ CreateSelectAccount(1)
  \/ CreateUpdateBalance(1)
  \/ call[1].op = "create" /\ Return(1)
  \/ \E p \in RequestIds :
       \/ \E lines \in ConcurrentBodies, id \in DOMAIN journalEntries :
            PutJournalEntry(p, id, NoHeaderFields, lines)
       \/ UpdateSelectEntry(p)
       \/ UpdateSelectLines(p)
       \/ UpdateReverseSelect(p)
       \/ UpdateReverseBalance(p)
       \/ UpdateEntryHeader(p)
       \/ UpdateDeleteLines(p)
       \/ UpdateInsertLines(p)
       \/ UpdateApplySelect(p)
       \/ UpdateApplyBalance(p)
       \/ Commit(p)
       \/ StorageFailure(p)

SpecConcurrentUpdates == Init /\ [][NextConcurrentUpdates]_vars

\* the accounts after the stored rows of an entry are reversed, one after the
\* other
RECURSIVE ReverseRows(_, _)
ReverseRows(accts, rows) ==
  IF rows = <<>> THEN accts
  ELSE LET before == ReverseRows(accts, SubSeq(rows, 1, Len(rows) - 1))
           row    == rows[Len(rows)]
       IN  [before EXCEPT ![row.accountId].balance =
                            reverseNewBalance(before[row.accountId], row)]

\* the accounts after the new lines of an Update are applied
RECURSIVE ApplyLines(_, _)
ApplyLines(accts, lines) ==
  IF lines = <<>> THEN accts
  ELSE LET before == ApplyLines(accts, SubSeq(lines, 1, Len(lines) - 1))
           line   == lines[Len(lines)]
       IN  [before EXCEPT ![line.accountId].balance =
                            applyNewBalance(before[line.accountId], line)]

\* one Update run alone on a database db = [accounts, rows] of one entry
SerialUpdate(db, lines) ==
  [accounts |-> ApplyLines(ReverseRows(db.accounts, db.rows), lines),
   rows     |-> StoredLines(lines)]

\* C11: when two concurrent Updates of the same entry have both committed,
\* the stored lines and every balance are those of running the two Updates one
\* after the other, in one order or the other, on the database as it was
\* before either.
C11_ConcurrentUpdatesSerializable ==
  ( /\ Committed(1, "update") /\ Committed(2, "update")
    /\ call[1].id = call[2].id ) =>
    LET id   == call[1].id
        pre  == IF call[1].pre.prior.op = "create" THEN call[1].pre
                ELSE call[2].pre
        base == [accounts |-> pre.accounts, rows |-> pre.journalEntryLines[id]]
        now  == [accounts |-> accounts, rows |-> journalEntryLines[id]]
    IN  \/ now = SerialUpdate(SerialUpdate(base, call[1].lines), call[2].lines)
        \/ now = SerialUpdate(SerialUpdate(base, call[2].lines), call[1].lines)

\* ------------------------------------------------------------ account routes
\* the id gen_random_uuid() gives an account created while the system runs
NewAccountIds == {"bank"}

\* Bodies of POST /api/accounts (insertAccountSchema): companyId and type are
\* required, balance is optional and defaults to '0'.
AccountBodies ==
  { [companyId |-> "c1", type |-> "ASSET", balance |-> "0"],
    [companyId |-> "c1", type |-> "ASSET", balance |-> "0.02"] }

\* Bodies of PUT /api/accounts/:id (insertAccountSchema.partial()): any subset
\* of the insertable columns, companyId, type and balance among them.
AccountUpdates ==
  { [balance |-> "0.02"], [type |-> "LIABILITY"], [companyId |-> "c2"] }

\* .set({ ...account, updatedAt: new Date() }) on one row
SetAccount(row, account) ==
  [companyId |-> IF "companyId" \in DOMAIN account THEN account.companyId
                 ELSE row.companyId,
   type      |-> IF "type" \in DOMAIN account THEN account.type ELSE row.type,
   balance   |-> IF "balance" \in DOMAIN account THEN PgNumeric(account.balance)
                 ELSE row.balance]

\* POST /api/accounts: storage.createAccount inserts the parsed body as it is
PostAccount(a, account) ==
  /\ nOps < MaxOps
  /\ a \notin DOMAIN accounts
  /\ nOps' = nOps + 1
  /\ accounts' = (a :> [companyId |-> account.companyId, type |-> account.type,
                        balance |-> PgNumeric(account.balance)]) @@ accounts
  /\ UNCHANGED <<journalEntries, journalEntryLines, call, tx, prior>>

\* PUT /api/accounts/:id: storage.updateAccount sets the columns the body
\* names on the row with that id (no row: nothing is updated).  The UPDATE
\* waits while a transaction holds the row.
PutAccount(a, account) ==
  /\ nOps < MaxOps
  /\ \A q \in RequestIds : a \notin DOMAIN tx[q].balances
  /\ nOps' = nOps + 1
  /\ accounts' = IF a \in DOMAIN accounts
                 THEN [accounts EXCEPT ![a] = SetAccount(@, account)]
                 ELSE accounts
  /\ UNCHANGED <<journalEntries, journalEntryLines, call, tx, prior>>

\* Journal requests served one at a time while clients edit the chart of
\* accounts; the journal bodies are postings between cash, sales and the other
\* company's cash account.
LedgerLines ==
  { Line("cash",  "0.02", "0"),
    Line("sales", "0",    "0.02"),
    Line("xcash", "0",    "0.02") }
LedgerBodies == [1 .. MinLines -> LedgerLines]

NextAccounts ==
  \/ \E a \in NewAccountIds, account \in AccountBodies : PostAccount(a, account)
  \/ \E a \in AccountIds \cup {GhostId}, account \in AccountUpdates :
       PutAccount(a, account)
  \/ \E lines \in LedgerBodies, c \in PostingCompanies : PostJournalEntry(1, c, lines)
  \/ \E lines \in LedgerBodies, id \in EntryIds : PutJournalEntry(1, id, NoHeaderFields, lines)
  \/ CreateInsertEntry(1)
  \/ CreateInsertLines(1)
  \/ CreateSelectAccount(1)
  \/ CreateUpdateBalance(1)
  \/ UpdateSelectEntry(1)
  \/ UpdateSelectLines(1)
  \/ UpdateReverseSelect(1)
  \/ UpdateReverseBalance(1)
  \/ UpdateEntryHeader(1)
  \/ UpdateDeleteLines(1)
  \/ UpdateInsertLines(1)
  \/ UpdateApplySelect(1)
  \/ UpdateApplyBalance(1)
  \/ Commit(1)
  \/ Return(1)

SpecAccounts == Init /\ [][NextAccounts]_vars

\* C12: a step changes the balance of an account, or creates an account with
\* a balance other than zero, only when it is the commit of a journal-entry
\* Create or Update.
C12_OnlyPostingWritesBalance ==
  [][ (\E a \in DOMAIN accounts' :
         \/ a \in DOMAIN accounts /\ accounts'[a].balance # accounts[a].balance
         \/ a \notin DOMAIN accounts /\ accounts'[a].balance # 0)
      => \E p \in RequestIds :
           /\ call[p].pc = "commit"
           /\ call[p].op \in {"create", "update"}
           /\ call'[p].pc = "done" ]_vars

\* C13: the stored totalAmount of every committed entry is the sum of the
\* debitAmount of the entry's stored lines.
C13_TotalAmountIsSumOfStoredDebits ==
  \A id \in DOMAIN journalEntries :
    /\ id \in DOMAIN journalEntryLines
    /\ journalEntries[id].totalAmount = Num(SumDebitRows(journalEntryLines[id]))

\* ------------------------------------------------------------ amounts below a cent
\* Journal requests served one at a time whose amounts are 0.02 or 0.004, the
\* latter less than half a cent.
SmallLines ==
  { Line("cash",  "0.004", "0"),
    Line("sales", "0",     "0.004"),
    Line("cash",  "0.02",  "0"),
    Line("sales", "0",     "0.02") }
SmallBodies == [1 .. MinLines -> SmallLines]

NextSmallAmounts ==
  \/ \E lines \in SmallBodies, c \in PostingCompanies : PostJournalEntry(1, c, lines)
  \/ \E lines \in SmallBodies, id \in EntryIds : PutJournalEntry(1, id, NoHeaderFields, lines)
  \/ CreateInsertEntry(1)
  \/ CreateInsertLines(1)
  \/ CreateSelectAccount(1)
  \/ CreateUpdateBalance(1)
  \/ UpdateSelectEntry(1)
  \/ UpdateSelectLines(1)
  \/ UpdateReverseSelect(1)
  \/ UpdateReverseBalance(1)
  \/ UpdateEntryHeader(1)
  \/ UpdateDeleteLines(1)
  \/ UpdateInsertLines(1)
  \/ UpdateApplySelect(1)
  \/ UpdateApplyBalance(1)
  \/ Commit(1)
  \/ StorageFailure(1)
  \/ Return(1)

SpecSmallAmounts == Init /\ [][NextSmallAmounts]_vars

\* C14: every stored journal-entry line has debitAmount >= 0 and
\* creditAmount >= 0, and exactly one of the two is nonzero.
C14_StoredLineHasOneSide ==
  \A id \in DOMAIN journalEntryLines :
    \A k \in 1 .. Len(journalEntryLines[id]) :
      LET row == journalEntryLines[id][k]
      IN  /\ row.debitAmount >= 0
          /\ row.creditAmount >= 0
          /\ (row.debitAmount # 0) # (row.creditAmount # 0)

\* C15: every stored journal-entry line references an account that exists
\* and belongs to the company of the line's entry.
C15_LineAccountInEntryCompany ==
  \A id \in DOMAIN journalEntryLines :
    \A k \in 1 .. Len(journalEntryLines[id]) :
      LET a == journalEntryLines[id][k].accountId
      IN  /\ a \in DOMAIN accounts
          /\ id \in DOMAIN journalEntries
          /\ accounts[a].companyId = journalEntries[id].companyId

\* the lowest-numbered rule of validation that the lines break, looking at
\* every line for each rule in turn; "ok" when they break none
LowestViolatedRule(lines, chart, companyId) ==
  LET debit(i)  == parseFloat(lines[i].debitAmount)
      credit(i) == parseFloat(lines[i].creditAmount)
      n == Len(lines)
  IN  IF n < 2 THEN "TooFewLines"
      ELSE IF \E i \in 1 .. n : Lt(debit(i), Zero) \/ Lt(credit(i), Zero)
      THEN "NegativeAmount"
      ELSE IF \E i \in 1 .. n : Gt(debit(i), Zero) /\ Gt(credit(i), Zero)
      THEN "AmbiguousLine"
      ELSE IF \E i \in 1 .. n : StrictEq(debit(i), Zero) /\ StrictEq(credit(i), Zero)
      THEN "EmptyLine"
      ELSE IF ExceedsEpsilon(SumDebits(lines), SumCredits(lines))
      THEN "Unbalanced"
      ELSE IF \E i \in 1 .. n :
                \/ lines[i].accountId \notin DOMAIN chart
                \/ chart[lines[i].accountId].companyId # companyId
      THEN "UnknownAccount"
      ELSE "ok"

\* C16: the error reported for a request that breaks rules of validation is
\* that of the lowest-numbered rule broken (too few lines, negative amount,
\* both sides, neither side, unbalanced, unknown account), whichever lines
\* break them.
C16_LowestRuleIsReported ==
  \A p \in RequestIds :
    (Addressed(p) /\ RequestInvalid(p)) =>
      call[p].response.kind =
        LowestViolatedRule(call[p].lines, call[p].pre.accounts, call[p].companyId)

\* C17: an Update addressed to an id no entry has is answered NotFound,
\* whatever its lines, and changes nothing.
C17_UpdateOfAbsentEntryIsNotFound ==
  \A p \in RequestIds :
    ( /\ call[p].pc # "idle"
      /\ call[p].op = "update"
      /\ call[p].id \notin DOMAIN call[p].pre.journalEntries ) =>
      /\ call[p].pc = "done"
      /\ call[p].response = [status |-> 404, kind |-> "NotFound"]
      /\ tx[p] = NoTx
      /\ DatabaseAsBefore(p)

\* a line of the request carries an amount that is no decimal number
HasMalformedAmount(lines) ==
  \E i \in 1 .. Len(lines) :
    \/ ~DecimalText(lines[i].debitAmount).wellFormed
    \/ ~DecimalText(lines[i].creditAmount).wellFormed

\* C18: a request with an amount that is no well-formed decimal is rejected
\* before any transaction is opened: it is answered 400 by the route, never
\* writes inside a transaction, and changes nothing.
C18_MalformedAmountRejectedAtBoundary ==
  \A p \in RequestIds :
    (Addressed(p) /\ HasMalformedAmount(call[p].lines)) =>
      /\ call[p].pc = "done"
      /\ call[p].response.status = 400
      /\ call[p].failedAt = ""
      /\ tx[p] = NoTx
      /\ DatabaseAsBefore(p)

\* C19: the step that posts a line to an account writes the balance it read
\* plus debit - credit for ASSET and EXPENSE, plus credit - debit for
\* LIABILITY, EQUITY and REVENUE, debit and credit being the line's amounts
\* as the ledger stores them.
C19_PostingFollowsDirectionalRule ==
  [][ \A p \in RequestIds :
        ( /\ call[p].pc \in {"c_update", "u_appUpdate"}
          /\ call'[p].pc \notin {"done", call[p].pc} ) =>
          LET line    == call[p].lines[call[p].i]
              account == call[p].account[1]
          IN  tx'[p].balances[line.accountId] =
                account.balance
                + DirectionalDelta(account.type, PgNumeric(line.debitAmount),
                                   PgNumeric(line.creditAmount)) ]_vars

\* C20: the stored lines of every committed entry reference at least two
\* distinct accounts.
C20_EntryTouchesTwoAccounts ==
  \A id \in DOMAIN journalEntryLines :
    Cardinality({journalEntryLines[id][k].accountId :
                   k \in 1 .. Len(journalEntryLines[id])}) >= 2

\* the rule reported when the lines are visited in order and each line is
\* checked for a negative amount, then both sides, then neither side, before
\* the totals and the accounts are looked at
RuleOfLine(line) ==
  LET debit  == parseFloat(line.debitAmount)
      credit == parseFloat(line.creditAmount)
  IN  IF Lt(debit, Zero) \/ Lt(credit, Zero) THEN "NegativeAmount"
      ELSE IF Gt(debit, Zero) /\ Gt(credit, Zero) THEN "AmbiguousLine"
      ELSE IF StrictEq(debit, Zero) /\ StrictEq(credit, Zero) THEN "EmptyLine"
      ELSE "ok"

RECURSIVE RuleOfFirstBadLine(_)
RuleOfFirstBadLine(lines) ==
  IF lines = <<>> THEN "ok"
  ELSE IF RuleOfLine(Head(lines)) # "ok" THEN RuleOfLine(Head(lines))
  ELSE RuleOfFirstBadLine(Tail(lines))

LineByLineRule(lines, chart, companyId) ==
  IF Len(lines) < 2 THEN "TooFewLines"
  ELSE IF RuleOfFirstBadLine(lines) # "ok" THEN RuleOfFirstBadLine(lines)
  ELSE LowestViolatedRule(lines, chart, companyId)

\* C16 (amended): the error reported is that of rule 1 when there are fewer
\* than 2 lines; otherwise that of the first line that breaks rule 2, 3 or 4,
\* taking the lowest-numbered rule that line breaks; otherwise rule 5, then
\* rule 6.
C16_FirstBadLineIsReported ==
  \A p \in RequestIds :
    (Addressed(p) /\ RequestInvalid(p)) =>
      call[p].response.kind =
        LineByLineRule(call[p].lines, call[p].pre.accounts, call[p].companyId)

\* an Update was rejected for its first line's fault although its second line
\* breaks a lower-numbered rule
C16_Witness ==
  \E p \in RequestIds :
    /\ Addressed(p) /\ RequestInvalid(p)
    /\ call[p].op = "update"
    /\ call[p].pc = "done"
    /\ call[p].response.kind = "EmptyLine"
    /\ LowestViolatedRule(call[p].lines, call[p].pre.accounts, call[p].companyId)
         = "NegativeAmount"

\* C17 (amended): an Update addressed to an id no entry has changes nothing;
\* it is answered NotFound whatever the amounts and accounts of its lines when
\* the body has at least 2 lines, and is rejected by the schema when it has
\* fewer.
C17_AbsentEntryNotFoundAfterSchema ==
  \A p \in RequestIds :
    ( /\ call[p].pc # "idle"
      /\ call[p].op = "update"
      /\ call[p].id \notin DOMAIN call[p].pre.journalEntries ) =>
      /\ call[p].pc = "done"
      /\ call[p].response = IF Len(call[p].lines) < 2
                            THEN [status |-> 400, kind |-> "TooFewLines"]
                            ELSE [status |-> 404, kind |-> "NotFound"]
      /\ tx[p] = NoTx
      /\ DatabaseAsBefore(p)

\* an Update of an absent entry whose two lines break a rule of validation
\* was answered NotFound while another entry exists
C17_Witness ==
  \E p \in RequestIds :
    /\ call[p].pc = "done"
    /\ call[p].op = "update"
    /\ call[p].id \notin DOMAIN call[p].pre.journalEntries
    /\ call[p].response.kind = "NotFound"
    /\ RequestInvalid(p)
    /\ journalEntries # <<>>

\* every committed entry has at least 2 lines and every committed line
\* belongs to a committed entry
EntriesAndLinesPaired ==
  /\ DOMAIN journalEntryLines = DOMAIN journalEntries
  /\ \A id \in DOMAIN journalEntries : Len(journalEntryLines[id]) >= 2

\* C21: in every committed state every stored entry has at least 2 lines and
\* every stored line belongs to a stored entry, and no step removes an entry:
\* the set of entry ids only grows.
C21_EntriesKeepLinesAndNeverVanish ==
  [][ /\ EntriesAndLinesPaired'
      /\ DOMAIN journalEntries \subseteq DOMAIN journalEntries' ]_vars

\* two entries are stored and one of them has been rewritten by a committed
\* Update
C21_Witness ==
  /\ Cardinality(DOMAIN journalEntries) = MaxEntries
  /\ prior.op = "update"
  /\ \E p \in RequestIds : Committed(p, "update")

\* the lines of request p pass every rule of validation except, possibly, the
\* balance rule
ValidButForBalance(p) ==
  LET lines == call[p].lines
      chart == call[p].pre.accounts
  IN  /\ Len(lines) >= 2
      /\ ~HasMalformedAmount(lines)
      /\ RuleOfFirstBadLine(lines) = "ok"
      /\ \A i \in 1 .. Len(lines) :
           /\ lines[i].accountId \in DOMAIN chart
           /\ chart[lines[i].accountId].companyId = call[p].companyId

\* C22: a Create whose lines are otherwise valid but whose debit total and
\* credit total differ is rejected as Unbalanced, the rejection carries the
\* difference of the totals, and nothing is changed.
C22_UnbalancedCreateReportsDifference ==
  \A p \in RequestIds :
    ( /\ call[p].pc # "idle"
      /\ call[p].op = "create"
      /\ ValidButForBalance(p)
      /\ SumDebits(call[p].lines) # SumCredits(call[p].lines) ) =>
      /\ call[p].pc = "done"
      /\ call[p].response = [status |-> 400, kind |-> "Unbalanced"]
      /\ "difference" \in DOMAIN call[p].message
      /\ call[p].message.difference =
           totalToFixed2(Abs(Minus(SumDebits(call[p].lines),
                                   SumCredits(call[p].lines))))
      /\ DatabaseAsBefore(p)

\* ------------------------------------------------------------ the balance check at its boundary
\* Journal requests served one at a time whose whole-cent totals are equal,
\* differ by exactly 0.01, or differ by 0.02.
BoundaryBodies ==
  { <<Line("cash", "0.02", "0"), Line("sales", "0", "0.02")>>,
    <<Line("cash", "0.02", "0"), Line("sales", "0", "0.01")>>,
    <<Line("cash", "0.02", "0"), Line("sales", "0", "0.02"),
      Line("sales", "0", "0.01")>>,
    <<Line("cash", "0.02", "0"), Line("cash", "0.02", "0"),
      Line("sales", "0", "0.02"), Line("sales", "0", "0.01")>>,
    <<Line("cash", "0.02", "0"), Line("cash", "0.02", "0"),
      Line("sales", "0", "0.02")>> }

NextBoundary ==
  \/ \E lines \in BoundaryBodies, c \in PostingCompanies : PostJournalEntry(1, c, lines)
  \/ \E lines \in BoundaryBodies, id \in EntryIds : PutJournalEntry(1, id, NoHeaderFields, lines)
  \/ CreateInsertEntry(1)
  \/ CreateInsertLines(1)
  \/ CreateSelectAccount(1)
  \/ CreateUpdateBalance(1)
  \/ UpdateSelectEntry(1)
  \/ UpdateSelectLines(1)
  \/ UpdateReverseSelect(1)
  \/ UpdateReverseBalance(1)
  \/ UpdateEntryHeader(1)
  \/ UpdateDeleteLines(1)
  \/ UpdateInsertLines(1)
  \/ UpdateApplySelect(1)
  \/ UpdateApplyBalance(1)
  \/ Commit(1)
  \/ Return(1)

SpecBoundary == Init /\ [][NextBoundary]_vars

\* request p got as far as the balance check: its body has 2 lines or more,
\* the entry exists, and every line passes the checks made on one line
ReachesBalanceCheck(p) ==
  /\ Addressed(p)
  /\ Len(call[p].lines) >= 2
  /\ ~HasMalformedAmount(call[p].lines)
  /\ RuleOfFirstBadLine(call[p].lines) = "ok"

\* the difference between the debit total and the credit total, in mills
TotalsDifference(lines) ==
  LET d == Val(SumDebits(lines)) - Val(SumCredits(lines))
  IN  IF d < 0 THEN -d ELSE d

\* C23: the balance check of Create and Update rejects a request exactly when
\* its debit total and its credit total differ by more than 0.01; a difference
\* of 0.01 or less is accepted.
C23_RejectedExactlyAboveEpsilon ==
  \A p \in RequestIds :
    ReachesBalanceCheck(p) =>
      ( (call[p].response.kind = "Unbalanced")
          <=> (TotalsDifference(call[p].lines) > EpsilonMills) )

\* ------------------------------------------------------------ the client's balance helper
\* calculateAccountBalance(currentBalance, accountType, debitAmount,
\* creditAmount) of accounting-utils.ts, on numbers: the result is not rounded
TypeStrings == {"ASSET", "LIABILITY", "EQUITY", "REVENUE", "EXPENSE", "OTHER"}
calculateAccountBalance(currentBalance, accountType, debitAmount, creditAmount) ==
  IF accountType \in {"ASSET", "EXPENSE"}
  THEN Minus(Plus(currentBalance, debitAmount), creditAmount)
  ELSE Minus(Plus(currentBalance, creditAmount), debitAmount)

\* C24: for every account type (the five of the enum and any other string) and
\* every line of a request, the forward delta of createJournalEntry, the
\* forward delta of updateJournalEntry and calculateAccountBalance give the
\* same new balance, and the reversal of updateJournalEntry applied to that
\* new balance for the same line gives back the balance it started from.
C24_DirectionIsTheSameEverywhere ==
  \A p \in RequestIds : \A i \in 1 .. Len(call[p].lines) :
    \A a \in DOMAIN accounts, t \in TypeStrings :
      LET line    == call[p].lines[i]
          account == [accounts[a] EXCEPT !.type = t]
          forward == createNewBalance(account, line)
          number  == calculateAccountBalance(parseStored(account.balance), t,
                                             parseFloat(line.debitAmount),
                                             parseFloat(line.creditAmount))
      IN  ~HasMalformedAmount(<<line>>) =>
            /\ applyNewBalance(account, line) = forward
            /\ number = parseStored(forward)
            /\ reverseNewBalance([account EXCEPT !.balance = forward],
                                 StoredLines(<<line>>)[1]) = account.balance

\* ------------------------------------------------------------ the order of Update's steps
\* what the transaction of request p has written so far for its entry
HeaderRewritten(p) == call[p].id \in DOMAIN tx[p].entries
LinesDeleted(p)    == call[p].id \in DOMAIN tx[p].lines
LinesInserted(p)   == LinesDeleted(p) /\ tx[p].lines[call[p].id] # <<>>
Reversing(p)       == call[p].pc \in {"u_revSelect", "u_revUpdate"}
Applying(p)        == call[p].pc \in {"u_appSelect", "u_appUpdate"}

\* The order of the steps other than the rewrite of the header: reversals,
\* then the deletion and the insertion of lines, then forward applications.
UpdateBalancesAndLinesInOrder ==
  \A p \in RequestIds :
    (call[p].op = "update" /\ call[p].pc \in TxPcs) =>
      /\ Reversing(p) => ~LinesDeleted(p)
      /\ Applying(p) => LinesInserted(p)

\* C25: inside an Update transaction the steps happen in this order: the
\* reversals, the deletion of the old lines, the rewrite of the header, the
\* insertion of the new lines, the forward applications; the old lines are
\* deleted before the header is rewritten.
C25_UpdateStepsInOrder ==
  \A p \in RequestIds :
    (call[p].op = "update" /\ call[p].pc \in TxPcs) =>
      /\ Reversing(p) => ~LinesDeleted(p) /\ ~HeaderRewritten(p)
      /\ HeaderRewritten(p) => LinesDeleted(p)
      /\ LinesInserted(p) => HeaderRewritten(p)
      /\ Applying(p) => LinesInserted(p)

\* ------------------------------------------------------------ GET /api/journal-entries/:id/with-lines
\* The route calls storage.getJournalEntryWithLines, which reads the header and
\* the lines with two statements on the connection pool, outside any
\* transaction.
GetJournalEntryWithLines(p, id) ==
  /\ call[p].pc = "idle"
  /\ call' = [call EXCEPT ![p] =
       [IdleCall EXCEPT !.pc = "r_selectEntry", !.op = "read", !.id = id,
                        !.pre = Snapshot]]
  /\ UNCHANGED <<accounts, journalEntries, journalEntryLines, tx, prior, nOps>>

\* const [entry] = await db.select().from(journalEntries).where(id);
\* if (!entry) return undefined   (answered 404 by the route)
ReadSelectEntry(p) ==
  /\ call[p].pc = "r_selectEntry"
  /\ IF call[p].id \in DOMAIN journalEntries
     THEN call' = [call EXCEPT ![p].entry = journalEntries[call[p].id],
                               ![p].pc = "r_selectLines"]
     ELSE call' = [call EXCEPT ![p].pc = "done",
                               ![p].response = [status |-> 404, kind |-> "NotFound"]]
  /\ UNCHANGED <<accounts, journalEntries, journalEntryLines, tx, prior, nOps>>

\* the orders in which .orderBy(journalEntryLines.debitAmount) can return rows
OrderedByDebitAmount(rows) ==
  { s \in { [i \in 1 .. Len(rows) |-> rows[f[i]]] : f \in Permutations(1 .. Len(rows)) } :
      \A i, j \in 1 .. Len(rows) : i < j => s[i].debitAmount <= s[j].debitAmount }

\* const lines = await db.select().from(journalEntryLines).where(id)
\*   .orderBy(journalEntryLines.debitAmount);  return { entry, lines }
ReadSelectLines(p) ==
  /\ call[p].pc = "r_selectLines"
  /\ LET rows == IF call[p].id \in DOMAIN journalEntryLines
                 THEN journalEntryLines[call[p].id] ELSE <<>>
     IN  \E lines \in OrderedByDebitAmount(rows) :
           call' = [call EXCEPT ![p].existingLines = lines,
                                ![p].pc = "done",
                                ![p].response = [status |-> 200, kind |-> "ok"]]
  /\ UNCHANGED <<accounts, journalEntries, journalEntryLines, tx, prior, nOps>>

\* Request 1 creates and updates entries with whole-cent bodies of different
\* debit sums while request 2 reads entries with their lines.
ReaderLines ==
  { Line("cash",  "0.02", "0"),
    Line("sales", "0",    "0.02"),
    Line("cash",  "0.01", "0"),
    Line("sales", "0",    "0.01") }
ReaderBodies == [1 .. MinLines -> ReaderLines]

NextReader ==
  \/ \E lines \in ReaderBodies, c \in PostingCompanies : PostJournalEntry(1, c, lines)
  \/ \E lines \in ReaderBodies, id \in EntryIds : PutJournalEntry(1, id, NoHeaderFields, lines)
  \/ CreateInsertEntry(1)
  \/ CreateInsertLines(1)
  \/ CreateSelectAccount(1)
  \/ CreateUpdateBalance(1)
  \/ UpdateSelectEntry(1)
  \/ UpdateSelectLines(1)
  \/ UpdateReverseSelect(1)
  \/ UpdateReverseBalance(1)
  \/ UpdateEntryHeader(1)
  \/ UpdateDeleteLines(1)
  \/ UpdateInsertLines(1)
  \/ UpdateApplySelect(1)
  \/ UpdateApplyBalance(1)
  \/ Commit(1)
  \/ Return(1)
  \/ \E id \in EntryIds : GetJournalEntryWithLines(2, id)
  \/ ReadSelectEntry(2)
  \/ ReadSelectLines(2)
  \/ Return(2)

SpecReader == Init /\ [][NextReader]_vars

\* C26: a reader of getJournalEntryWithLines never receives the header of one
\* version of an entry with the lines of another: the totalAmount it gets is
\* the debit sum of the lines it gets.
C26_ReaderSeesOneVersion ==
  \A p \in RequestIds :
    ( call[p].op = "read" /\ call[p].pc = "done" /\ call[p].response.status = 200 ) =>
      call[p].entry.totalAmount = Num(SumDebitRows(call[p].existingLines))

\* ------------------------------------------------------------ termination
\* The storage calls of request p: each one returns, and the handler goes on.
Proceed(p) ==
  \/ CreateInsertEntry(p)
  \/ CreateInsertLines(p)
  \/ CreateSelectAccount(p)
  \/ CreateUpdateBalance(p)
  \/ UpdateSelectEntry(p)
  \/ UpdateSelectLines(p)
  \/ UpdateReverseSelect(p)
  \/ UpdateReverseBalance(p)
  \/ UpdateEntryHeader(p)
  \/ UpdateDeleteLines(p)
  \/ UpdateInsertLines(p)
  \/ UpdateApplySelect(p)
  \/ UpdateApplyBalance(p)
  \/ Commit(p)

\* Requests served one at a time, any storage call of which may fail; a storage
\* call that does not fail returns (the handler is resumed by the event loop).
NextLive ==
  \/ NextBoundary
  \/ StorageFailure(1)

SpecLive == Init /\ [][NextLive]_vars /\ WF_vars(Proceed(1))

\* the call of request p has ended: Committed, or Aborted with nothing applied
Ended(p) ==
  /\ call[p].pc = "done"
  /\ tx[p] = NoTx
  /\ \/ call[p].response.status = 200
     \/ call[p].response.status = 400 /\ DatabaseAsBefore(p)

\* C27: every Create or Update call that has opened its transaction
\* eventually ends Committed or Aborted, provided each storage call returns or
\* fails; it never stays with part of its writes applied.
C27_StartedCallEnds ==
  \A p \in RequestIds : (call[p].pc \in TxPcs) ~> Ended(p)

\* an Update was aborted in its apply loop, after an earlier call committed
C27_Witness ==
  /\ prior.op # "none"
  /\ call[1].pc = "done"
  /\ call[1].op = "update"
  /\ call[1].failedAt = "u_appUpdate"
  /\ Ended(1)

\* ------------------------------------------------------------ reversal and the account's type
\* the lines Update p found stored were written by the last commit before it,
\* whose posting types are on record
PostingOnRecord(p) ==
  /\ call[p].pre.prior.op \in {"create", "update"}
  /\ call[p].pre.prior.id = call[p].id
  /\ Len(call[p].pre.prior.types) = Len(call[p].existingLines)

\* this step is the balance write of p's reversal loop
ReversalStep(p) ==
  /\ call[p].op = "update"
  /\ call[p].pc = "u_revUpdate"
  /\ call'[p].pc \in {"u_revSelect", "u_updateEntry"}

\* the change the reversal step makes to the balance it read (cents)
ReversalDelta(p) ==
  tx'[p].balances[call[p].existingLines[call[p].i].accountId]
    - call[p].account[1].balance

\* the delta a posting of p's current existing line makes under a type (cents)
PostingDelta(p, type) ==
  LET row == call[p].existingLines[call[p].i]
  IN  DirectionalDelta(type, row.debitAmount, row.creditAmount)

\* the type the current existing line was posted with
PostedType(p) == call[p].pre.prior.types[call[p].i]

\* C28 as stated: the reversal of a line is computed with the type the account
\* has when Update reads it, and it undoes the posting exactly only if the
\* account's type is the one the line was posted with.
C28_ReversalExactOnlyIfTypeUnchanged ==
  [][ \A p \in RequestIds :
        (ReversalStep(p) /\ PostingOnRecord(p)) =>
          /\ ReversalDelta(p) = -PostingDelta(p, call[p].account[1].type)
          /\ (ReversalDelta(p) = -PostingDelta(p, PostedType(p)))
               => PostedType(p) = call[p].account[1].type ]_vars

\* C28, amended: the reversal of a line is computed with the type the account
\* has when Update reads it, and it undoes the posting exactly only if that
\* type has the normal side (debit for ASSET and EXPENSE, credit otherwise) of
\* the type the line was posted with, or the line's stored debit and credit
\* amounts are equal.
C28_ReversalExactOnlyIfSideUnchanged ==
  [][ \A p \in RequestIds :
        (ReversalStep(p) /\ PostingOnRecord(p)) =>
          /\ ReversalDelta(p) = -PostingDelta(p, call[p].account[1].type)
          /\ (ReversalDelta(p) = -PostingDelta(p, PostedType(p)))
               => \/ DebitNormal(PostedType(p)) = DebitNormal(call[p].account[1].type)
                  \/ call[p].existingLines[call[p].i].debitAmount
                       = call[p].existingLines[call[p].i].creditAmount ]_vars

\* the reversal loop of an Update has run on a line whose account went from a
\* debit-normal type to a credit-normal one after the line was posted, and
\* has not given back what the posting added
C28_Witness ==
  \E p \in RequestIds :
    /\ call[p].op = "update"
    /\ call[p].pc = "u_updateEntry"
    /\ PostingOnRecord(p)
    /\ \E k \in 1 .. Len(call[p].existingLines) :
         LET a == call[p].existingLines[k].accountId
         IN  /\ DebitNormal(call[p].pre.prior.types[k])
             /\ ~DebitNormal(accounts[a].type)
             /\ a \in DOMAIN tx[p].balances
             /\ tx[p].balances[a] # call[p].pre.prior.before[a].balance

\* ------------------------------------------------------------ what a commit leaves alone
\* the accounts the lines of a request, or stored rows, reference
AccountsOf(rows) == {rows[k].accountId : k \in 1 .. Len(rows)}

\* this step is the commit of request p
CommitStep(p) ==
  /\ call[p].pc = "commit"
  /\ call'[p].pc = "done"
  /\ call'[p].response.status = 200

\* the rows p's transaction found stored for its entry (none for a Create)
OldLines(p) == call[p].existingLines

\* C29: a committed Create changes the balance of no account other than those
\* its lines reference, a committed Update of no account other than those the
\* entry's old or new lines reference; accounts of other companies and all
\* other entries and their lines are left unchanged.
C29_CommitChangesOnlyItsOwn ==
  [][ \A p \in RequestIds :
        CommitStep(p) =>
          /\ \A a \in DOMAIN accounts :
               accounts'[a].balance # accounts[a].balance =>
                 a \in AccountsOf(call[p].lines) \cup AccountsOf(OldLines(p))
          /\ \A a \in DOMAIN accounts :
               accounts[a].companyId # call[p].companyId =>
                 accounts'[a] = accounts[a]
          /\ \A id \in DOMAIN journalEntries \ {call[p].id} :
               /\ id \in DOMAIN journalEntries'
               /\ journalEntries'[id] = journalEntries[id]
               /\ journalEntryLines'[id] = journalEntryLines[id] ]_vars

\* ------------------------------------------------------------ the header under Update
\* Requests served one at a time; the PUT bodies carry entry objects that name
\* no field, some fields, a date in another notation, a date that is none, a
\* totalAmount of their own, and keys the schema does not know.
HeaderLines ==
  { <<Line("cash", "0.02", "0"), Line("sales", "0", "0.02")>>,
    <<Line("cash", "0.01", "0"), Line("sales", "0", "0.01")>> }
EntryBodies ==
  { NoHeaderFields,
    [description |-> "edited"],
    [entryNumber |-> "JE-2", reference |-> "ref-2"],
    [date |-> "2024-01-02T00:00:00.000Z"],
    [date |-> ""],
    [date |-> "soon"],
    [totalAmount |-> "9.99"],
    [id |-> "2", companyId |-> "c2", createdBy |-> "someone"] }

NextHeader ==
  \/ \E lines \in HeaderLines, c \in PostingCompanies : PostJournalEntry(1, c, lines)
  \/ \E lines \in HeaderLines, id \in EntryIds, entry \in EntryBodies :
       PutJournalEntry(1, id, entry, lines)
  \/ CreateInsertEntry(1)
  \/ CreateInsertLines(1)
  \/ CreateSelectAccount(1)
  \/ CreateUpdateBalance(1)
  \/ UpdateSelectEntry(1)
  \/ UpdateSelectLines(1)
  \/ UpdateReverseSelect(1)
  \/ UpdateReverseBalance(1)
  \/ UpdateEntryHeader(1)
  \/ UpdateDeleteLines(1)
  \/ UpdateInsertLines(1)
  \/ UpdateApplySelect(1)
  \/ UpdateApplyBalance(1)
  \/ Commit(1)
  \/ Return(1)

SpecHeader == Init /\ [][NextHeader]_vars

\* C30: the commit of an Update leaves the entry under its id with its
\* companyId and createdBy, keeps every one of entryNumber, date, description
\* and reference that the request omits, and sets totalAmount to the debit
\* total recomputed from the request's lines.
C30_UpdateKeepsIdentityAndOmittedFields ==
  [][ \A p \in RequestIds :
        (CommitStep(p) /\ call[p].op = "update") =>
          /\ call[p].id \in DOMAIN journalEntries
          /\ call[p].id \in DOMAIN journalEntries'
          /\ DOMAIN journalEntries' = DOMAIN journalEntries
          /\ LET old == journalEntries[call[p].id]
                 new == journalEntries'[call[p].id]
             IN  /\ new.companyId = old.companyId
                 /\ new.createdBy = old.createdBy
                 /\ \A f \in {"entryNumber", "date", "description", "reference"} :
                      f \notin DOMAIN call[p].entry => new[f] = old[f]
                 /\ new.totalAmount = totalToFixed2(SumDebits(call[p].lines)) ]_vars

\* an Update that named only the description has committed: the description
\* and the total are new, the other header fields are the posted ones
C30_Witness ==
  /\ prior.op = "update"
  /\ \E id \in DOMAIN journalEntries :
       /\ journalEntries[id].description = "edited"
       /\ journalEntries[id].entryNumber = "JE-1"
       /\ journalEntries[id].date = NewDate(PostedDate).time
       /\ journalEntries[id].totalAmount # call[1].pre.journalEntries[id].totalAmount

=============================================================================
